---- MODULE Spec2Model ----
(***************************************************************************)
(* MigrateToS3.command of ckanext/datagovsg_s3_resources/commands.py as a  *)
(* sequential state machine.  One action per step of the command: the      *)
(* set-up (lines 31-74), the fetch of the next dataset (76-80), the        *)
(* classification of the next resource (81-91, 108-110), the migration     *)
(* attempt with its three except clauses (92-107), the archive upload      *)
(* (112), the dataset-level except clause (113-115) and the summary        *)
(* (118-128).  External operations (get_site_user, package_list,           *)
(* package_show, resource_update, upload_package_zipfile_to_s3) return or  *)
(* raise nondeterministically.  Only exceptions derived from Exception are *)
(* modelled.                                                               *)
(*                                                                         *)
(* Strings that the code converts (str.lower, str.split) are sequences of  *)
(* one-character strings; all other strings are TLA+ strings.              *)
(***************************************************************************)
EXTENDS Integers, Sequences, FiniteSets, TLC

\* ------------------------------------------------------------------ bounds

\* Most resources the catalogue holds over all its datasets: the resource
\* lists package_show returns during one run have at most this many
\* elements together.
MaxVisits == 2

\* ------------------------------------------------------------------ inputs

\* The dataset names package_list can return, in catalogue order.
AllNames == << "d1", "d2" >>

\* self.args (max_args = 1): no argument, force_s3, or some other word.
ArgValues == { <<>>, <<"force_s3">>, <<"other">> }

\* Values of ckan.datagovsg_s3_resources.upload_filetype_blacklist: unset
\* (the default ''), one token between blanks, and two tokens whose case
\* differs from the case of the formats below.
ConfigValues == { <<>>, <<" ", "Z", " ">>, <<"z", " ", "C">> }

\* resource['format'] values.
Formats == { <<"Z">>, <<"c">> }

\* Exception classes resource_update can raise: the two that lines 96 and
\* 100 name, and one that only line 104 catches.
ErrorKinds == { "ValidationError", "KeyError", "Exception" }

\* Exception classes package_show and upload_package_zipfile_to_s3 can
\* raise: line 113 catches every class alike.
DatasetErrorKinds == { "Exception" }

\* ----------------------------------------------------------- pure helpers

\* str.lower on one character (the letters the inputs use).
LowerChar(c) ==
    CASE c = "Z" -> "z"
      [] c = "C" -> "c"
      [] OTHER   -> c

\* str.lower
Lower(s) == [i \in DOMAIN s |-> LowerChar(s[i])]

IsSpace(c) == c = " "

\* str.split() with no separator: maximal runs of non-blank characters.
RECURSIVE SplitFrom(_, _, _)
SplitFrom(s, i, cur) ==
    IF i > Len(s)
    THEN IF cur = <<>> THEN <<>> ELSE <<cur>>
    ELSE IF IsSpace(s[i])
         THEN (IF cur = <<>> THEN <<>> ELSE <<cur>>) \o SplitFrom(s, i + 1, <<>>)
         ELSE SplitFrom(s, i + 1, Append(cur, s[i]))

Split(s) == SplitFrom(s, 1, <<>>)

\* Elements of a list.
Range(s) == { s[i] : i \in DOMAIN s }

\* Mutant of ParseBlacklist: the tokens are split and not lowercased.
ParseBlacklistNoLower(cfg) == Split(cfg)

\* blacklist = [t.lower() for t in config.get(...).split()]
ParseBlacklist(cfg) == [i \in DOMAIN Split(cfg) |-> Lower(Split(cfg)[i])]

\* Mutant of SkipExisting: the argument is never looked at.
SkipExistingIgnoresArgs(a) == TRUE

\* skip_existing_s3_upload: False only when args[0] == 'force_s3'.
SkipExisting(a) == ~(Len(a) > 0 /\ a[1] = "force_s3")

\* pkg['id'] of the dataset package_show returns for a name.
PkgId(name) == <<"pkg", name>>

\* resource['id'] of the i-th resource of a dataset.
ResId(name, i) == <<"res", name, i>>

\* d[k] on a dict: the key is present.
HasKey(d, k) == k \in DOMAIN d

\* A dict restricted to some of its keys.
Restrict(d, K) == [k \in K |-> d[k]]

\* The resource dicts package_show can return at position i of dataset name:
\* one already on S3, two uploaded ones, and two malformed records, one with
\* neither url_type nor format and one without id.
ResourceDicts(name, i) ==
    LET full(u, f) == [url_type |-> u, format |-> f, id |-> ResId(name, i)]
    IN  { full("s3", <<"Z">>), full("upload", <<"Z">>), full("upload", <<"c">>),
          Restrict(full("upload", <<"c">>), {"id"}),
          Restrict(full("s3", <<"Z">>), {"url_type", "format"}) }

\* The num_resources package_show can report beside a list of n resources:
\* the length of the list, or a count that disagrees with it.
NumResources(n) == { 0, IF n = 0 THEN 1 ELSE n }

\* An entry of calls: an external operation, the dataset and the resource
\* position (0: none) it was invoked for, and how it ended: "returned" or
\* the class of the exception it raised.
Call(op, name, i, result) == [op |-> op, dataset |-> name, index |-> i, result |-> result]

\* An entry of log: a logger.info or logger.error call, with the dataset and
\* the resource position (0: none) its message is about.  The error
\* messages of lines 97, 101 and 105 are named after their except clause.
Logged(level, msg, name, i) == [level |-> level, msg |-> msg, dataset |-> name, index |-> i]

\* Mutant of ExceptClause: the catch-all clause comes first.
ExceptClauseCatchAllFirst(kind) == "other"

\* The except clause of lines 96-107 that handles an exception class: the
\* first clause that matches, in source order.
ExceptClause(kind) ==
    IF kind = "ValidationError" THEN "validation"
    ELSE IF kind = "KeyError" THEN "key"
    ELSE "other"

\* ------------------------------------------------------------------- state

VARIABLES
    args,                    \* self.args
    config,                  \* the blacklist configuration string
    pc,                      \* position in command()
    skip_existing_s3_upload,
    dataset_names,
    di,                      \* index of dataset_name in dataset_names
    pkg,                     \* the dict package_show returned
    ri,                      \* index of resource in pkg['resources']
    resource,                \* the resource of the current iteration
    key_errors,
    validation_errors,
    other_errors_list,
    pkg_crashes,
    pkg_crashes_w_error,
    blacklist,
    blacklisted,
    not_blacklisted,
    already_on_s3,
    extensions_seen,
    log,                     \* what the logger received, in order
    calls,                   \* external operations invoked, in order
    visited                  \* resources the inner loop has iterated over

vars == << args, config, pc, skip_existing_s3_upload, dataset_names, di, pkg,
           ri, resource, key_errors, validation_errors, other_errors_list,
           pkg_crashes, pkg_crashes_w_error, blacklist, blacklisted,
           not_blacklisted, already_on_s3, extensions_seen, log, calls,
           visited >>

inputs == << args, config >>
locals == << skip_existing_s3_upload, dataset_names, blacklist >>
cursor == << di, pkg, ri, resource >>
errors == << key_errors, validation_errors, other_errors_list, pkg_crashes >>
buckets == << blacklisted, not_blacklisted, already_on_s3, extensions_seen >>

NoPkg == [id |-> <<>>, num_resources |-> 0, nres |-> 0]
NoResource == << >>

dataset_name == dataset_names[di]

Init ==
    /\ args \in ArgValues
    /\ config \in ConfigValues
    /\ pc = "start"
    /\ skip_existing_s3_upload = TRUE
    /\ dataset_names = <<>>
    /\ di = 1
    /\ pkg = NoPkg
    /\ ri = 0
    /\ resource = NoResource
    /\ key_errors = 0
    /\ validation_errors = 0
    /\ other_errors_list = <<>>
    /\ pkg_crashes = {}
    /\ pkg_crashes_w_error = <<>>
    /\ blacklist = <<>>
    /\ blacklisted = <<>>
    /\ not_blacklisted = 0
    /\ already_on_s3 = <<>>
    /\ extensions_seen = {}
    /\ log = <<>>
    /\ calls = <<>>
    /\ visited = <<>>

\* ------------------------------------------------------------------ set-up

\* Lines 31-74 with get_site_user and package_list returning.
Setup ==
    /\ pc = "start"
    /\ \E n \in 0..Len(AllNames) : dataset_names' = SubSeq(AllNames, 1, n)
    /\ skip_existing_s3_upload' = SkipExisting(args)
    /\ blacklist' = ParseBlacklist(config)
    /\ key_errors' = 0
    /\ validation_errors' = 0
    /\ other_errors_list' = <<>>
    /\ pkg_crashes' = {}
    /\ pkg_crashes_w_error' = <<>>
    /\ blacklisted' = <<>>
    /\ not_blacklisted' = 0
    /\ already_on_s3' = <<>>
    /\ extensions_seen' = {}
    /\ calls' = calls \o << Call("get_site_user", "", 0, "returned"),
                           Call("package_list", "", 0, "returned") >>
    /\ pc' = "loop"
    /\ UNCHANGED << inputs, cursor, log, visited >>

\* Lines 39 and 50 are outside every try: an exception raised by
\* get_site_user or package_list leaves command().
SetupRaises ==
    /\ pc = "start"
    /\ \E e \in DatasetErrorKinds :
        \E c \in { << Call("get_site_user", "", 0, e) >>,
                    << Call("get_site_user", "", 0, "returned"),
                       Call("package_list", "", 0, e) >> } :
          calls' = calls \o c
    /\ pc' = "raised"
    /\ UNCHANGED << inputs, locals, cursor, errors, pkg_crashes_w_error,
                    buckets, log, visited >>

\* ------------------------------------------------------- dataset boundary

\* Mutant of DatasetCrash: there is no outer except clause, the exception
\* leaves command().
DatasetCrashPropagates(error, log_so_far) ==
    /\ log' = log_so_far
    /\ pkg_crashes_w_error' = pkg_crashes_w_error
    /\ di' = di
    /\ pc' = "raised"

\* Mutant of DatasetCrash: the error is recorded and not logged.
DatasetCrashUnlogged(error, log_so_far) ==
    /\ log' = log_so_far
    /\ pkg_crashes_w_error' =
          Append(pkg_crashes_w_error, [pkg_name |-> dataset_names[di], error |-> error])
    /\ di' = di + 1
    /\ pc' = "loop"

\* Mutant of DatasetCrash: after the record the same dataset name is taken
\* again.
DatasetCrashRetries(error, log_so_far) ==
    /\ log' = Append(log_so_far, Logged("error", "Error when migrating package", dataset_name, 0))
    /\ pkg_crashes_w_error' =
          Append(pkg_crashes_w_error, [pkg_name |-> dataset_name, error |-> error])
    /\ di' = di
    /\ pc' = "loop"

\* Mutant of DatasetCrash: the except clause sits inside the resource loop,
\* so after the record the dataset is carried on with at line 112.
DatasetCrashThenArchive(error, log_so_far) ==
    /\ log' = Append(log_so_far, Logged("error", "Error when migrating package", dataset_name, 0))
    /\ pkg_crashes_w_error' =
          Append(pkg_crashes_w_error, [pkg_name |-> dataset_name, error |-> error])
    /\ di' = di
    /\ pc' = "zip"

\* Lines 113-115: the except clause of the outer try.  It logs the error,
\* appends one entry to pkg_crashes_w_error, and the for loop of line 76
\* moves to the next dataset name.
DatasetCrash(error, log_so_far) ==
    /\ log' = Append(log_so_far, Logged("error", "Error when migrating package", dataset_name, 0))
    /\ pkg_crashes_w_error' =
          Append(pkg_crashes_w_error, [pkg_name |-> dataset_name, error |-> error])
    /\ di' = di + 1
    /\ pc' = "loop"

\* Line 77, logged before the try of each dataset.
StartingLog == Append(log, Logged("info", "Starting package migration", dataset_name, 0))

\* Mutant of AfterFetch: line 80 is missing, the resource list is iterated
\* whatever num_resources says.
AfterFetchIgnoresCount(p) ==
    IF p.nres > 0 THEN "resource" ELSE "zip"

\* Where line 80-81 goes once package_show has returned p: into the inner
\* loop when num_resources > 0 and the resource list is not empty, else
\* straight to line 112.
AfterFetch(p) ==
    IF p.num_resources > 0 /\ p.nres > 0 THEN "resource" ELSE "zip"

\* Lines 76-80: package_show returns the dataset.  The resource dicts of
\* the list are drawn when the loop of line 81 reaches them: each is read
\* by one iteration only.
FetchReturns ==
    /\ pc = "loop"
    /\ di <= Len(dataset_names)
    /\ calls' = Append(calls, Call("package_show", dataset_name, 0, "returned"))
    /\ \E n \in 0..(MaxVisits - Len(visited)) : \E num \in NumResources(n) :
          /\ pkg' = [id |-> PkgId(dataset_name), num_resources |-> num, nres |-> n]
          /\ pc' = AfterFetch(pkg')
          /\ ri' = IF AfterFetch(pkg') = "resource" THEN 1 ELSE 0
    /\ log' = StartingLog
    /\ resource' = NoResource
    /\ UNCHANGED << inputs, locals, di, errors, pkg_crashes_w_error, buckets,
                    visited >>

\* Mutant of FetchRaises: the archive upload sits in a finally clause and
\* runs after the except clause too.
FetchRaisesThenArchive ==
    /\ pc = "loop"
    /\ di <= Len(dataset_names)
    /\ \E e \in DatasetErrorKinds :
          /\ calls' = Append(calls, Call("package_show", dataset_name, 0, e))
          /\ log' = Append(StartingLog,
                           Logged("error", "Error when migrating package", dataset_name, 0))
          /\ pkg_crashes_w_error' =
                Append(pkg_crashes_w_error, [pkg_name |-> dataset_name, error |-> e])
    /\ pc' = "zip"
    /\ UNCHANGED << inputs, locals, cursor, errors, buckets, visited >>

\* Lines 76-79, 113-115: package_show raises.
FetchRaises ==
    /\ pc = "loop"
    /\ di <= Len(dataset_names)
    /\ \E e \in DatasetErrorKinds :
          /\ calls' = Append(calls, Call("package_show", dataset_name, 0, e))
          /\ DatasetCrash(e, StartingLog)
    /\ UNCHANGED << inputs, locals, pkg, ri, resource, errors, buckets,
                    visited >>

\* ---------------------------------------------------------- resource loop

\* Mutant of ClassifyPath: the blacklist test comes before the test for
\* resources already on S3.
ClassifyPathBlacklistFirst(r, skip, bl) ==
    IF ~HasKey(r, "format") THEN "KeyError@88"
    ELSE IF Lower(r["format"]) \in Range(bl)
         THEN (IF HasKey(r, "id") THEN "blacklisted" ELSE "KeyError@110")
    ELSE IF skip /\ ~HasKey(r, "url_type") THEN "KeyError@83"
    ELSE IF skip /\ r["url_type"] = "s3"
         THEN (IF HasKey(r, "id") THEN "skip" ELSE "KeyError@85")
    ELSE "migrate"

\* The path lines 83-110 take on resource r, up to the try of line 92:
\*   "KeyError@83"  resource['url_type'] raises (read only when skipping)
\*   "KeyError@85"  already on S3, resource['id'] raises
\*   "skip"         already on S3, recorded, continue
\*   "KeyError@88"  resource['format'] raises
\*   "migrate"      extension not in blacklist: the try of line 92 is entered
\*   "KeyError@110" blacklisted, resource['id'] raises
\*   "blacklisted"  blacklisted, recorded
ClassifyPath(r, skip, bl) ==
    IF skip /\ ~HasKey(r, "url_type") THEN "KeyError@83"
    ELSE IF skip /\ r["url_type"] = "s3"
         THEN (IF HasKey(r, "id") THEN "skip" ELSE "KeyError@85")
    ELSE IF ~HasKey(r, "format") THEN "KeyError@88"
    ELSE IF Lower(r["format"]) \notin Range(bl) THEN "migrate"
    ELSE IF HasKey(r, "id") THEN "blacklisted" ELSE "KeyError@110"

\* Mutant of NextResource: the archive upload is indented into the loop and
\* follows the first resource.
NextResourceArchivesEarly ==
    /\ ri' = ri
    /\ pc' = "zip"

\* The loop of line 81 after an iteration that ended normally: the next
\* resource, or line 112 after the last one.
NextResource ==
    /\ ri' = IF ri < pkg.nres THEN ri + 1 ELSE ri
    /\ pc' = IF ri < pkg.nres THEN "resource" ELSE "zip"

\* Lines 81-91 and 108-110: one iteration of the inner loop up to the try
\* of line 92.
Classify ==
    /\ pc = "resource"
    /\ \E r \in ResourceDicts(dataset_name, ri) :
        LET path == ClassifyPath(r, skip_existing_s3_upload, blacklist)
            ext  == Lower(r["format"])
            skiplog == Append(log, Logged("info", "already on S3", dataset_name, ri))
            bllog == Append(log, Logged("info", "is blacklisted", dataset_name, ri))
        IN
        /\ resource' = r
        /\ visited' = Append(visited, [dataset |-> dataset_name, index |-> ri, resource |-> r])
        /\ already_on_s3' =
              IF path = "skip" THEN Append(already_on_s3, r["id"]) ELSE already_on_s3
        /\ extensions_seen' =
              IF path \in {"migrate", "blacklisted", "KeyError@110"}
              THEN extensions_seen \cup {ext} ELSE extensions_seen
        /\ not_blacklisted' =
              IF path = "migrate" THEN not_blacklisted + 1 ELSE not_blacklisted
        /\ blacklisted' =
              IF path = "blacklisted"
              THEN Append(blacklisted, [resource_id |-> r["id"], id |-> ext])
              ELSE blacklisted
        /\ CASE path = "skip" ->
                  /\ log' = skiplog
                  /\ NextResource
                  /\ UNCHANGED << di, pkg_crashes_w_error >>
             [] path = "blacklisted" ->
                  /\ log' = bllog
                  /\ NextResource
                  /\ UNCHANGED << di, pkg_crashes_w_error >>
             [] path = "migrate" ->
                  /\ pc' = "migrate"
                  /\ UNCHANGED << di, ri, log, pkg_crashes_w_error >>
             [] path = "KeyError@85" ->
                  /\ DatasetCrash("KeyError", skiplog)
                  /\ UNCHANGED ri
             [] path = "KeyError@110" ->
                  /\ DatasetCrash("KeyError", bllog)
                  /\ UNCHANGED ri
             [] OTHER ->
                  /\ DatasetCrash("KeyError", log)
                  /\ UNCHANGED ri
    /\ UNCHANGED << inputs, locals, pkg, errors, calls >>

\* Mutant of MigrateReturns: the resource is counted as eligible a second
\* time once its migration has succeeded.
MigrateReturnsCountsAgain ==
    /\ pc = "migrate"
    /\ calls' = Append(calls, Call("resource_update", dataset_name, ri, "returned"))
    /\ log' = log \o << Logged("info", "Attempting to migrate", dataset_name, ri),
                        Logged("info", "Successfully migrated", dataset_name, ri) >>
    /\ NextResource
    /\ not_blacklisted' = not_blacklisted + 1
    /\ UNCHANGED << inputs, locals, di, pkg, resource, errors,
                    pkg_crashes_w_error, blacklisted, already_on_s3,
                    extensions_seen, visited >>

\* Lines 92-95 and 130-136: change_to_s3 calls resource_update once, and it
\* returns.
MigrateReturns ==
    /\ pc = "migrate"
    /\ calls' = Append(calls, Call("resource_update", dataset_name, ri, "returned"))
    /\ log' = log \o << Logged("info", "Attempting to migrate", dataset_name, ri),
                        Logged("info", "Successfully migrated", dataset_name, ri) >>
    /\ NextResource
    /\ UNCHANGED << inputs, locals, di, pkg, resource, errors,
                    pkg_crashes_w_error, buckets, visited >>

\* Mutant of RecordFailure: the catch-all clause assigns a new list instead
\* of appending.
RecordFailureOverwrites(clause, kind) ==
    /\ validation_errors' =
          IF clause = "validation" THEN validation_errors + 1 ELSE validation_errors
    /\ key_errors' = IF clause = "key" THEN key_errors + 1 ELSE key_errors
    /\ other_errors_list' =
          IF clause = "other"
          THEN << [id |-> pkg.id, error |-> kind] >>
          ELSE other_errors_list
    /\ pkg_crashes' = pkg_crashes \cup {pkg.id}

\* Mutant of RecordFailure: the catch-all clause does not mark the dataset.
RecordFailureOtherUnmarked(clause, kind) ==
    /\ validation_errors' =
          IF clause = "validation" THEN validation_errors + 1 ELSE validation_errors
    /\ key_errors' = IF clause = "key" THEN key_errors + 1 ELSE key_errors
    /\ other_errors_list' =
          IF clause = "other"
          THEN Append(other_errors_list, [id |-> pkg.id, error |-> kind])
          ELSE other_errors_list
    /\ pkg_crashes' = IF clause = "other" THEN pkg_crashes ELSE pkg_crashes \cup {pkg.id}

\* Mutant of RecordFailure: the KeyError clause does not count.
RecordFailureKeyUncounted(clause, kind) ==
    /\ validation_errors' =
          IF clause = "validation" THEN validation_errors + 1 ELSE validation_errors
    /\ key_errors' = key_errors
    /\ other_errors_list' =
          IF clause = "other"
          THEN Append(other_errors_list, [id |-> pkg.id, error |-> kind])
          ELSE other_errors_list
    /\ pkg_crashes' = pkg_crashes \cup {pkg.id}

\* The bodies of the three except clauses, lines 98-99, 102-103 and 106-107.
RecordFailure(clause, kind) ==
    /\ validation_errors' =
          IF clause = "validation" THEN validation_errors + 1 ELSE validation_errors
    /\ key_errors' = IF clause = "key" THEN key_errors + 1 ELSE key_errors
    /\ other_errors_list' =
          IF clause = "other"
          THEN Append(other_errors_list, [id |-> pkg.id, error |-> kind])
          ELSE other_errors_list
    /\ pkg_crashes' = pkg_crashes \cup {pkg.id}

\* Mutant of MigrateRaises: after a failure has been recorded the same
\* resource is attempted again.
MigrateRaisesRetries ==
    /\ pc = "migrate"
    /\ \E kind \in ErrorKinds :
        LET clause == ExceptClause(kind) IN
        /\ calls' = Append(calls, Call("resource_update", dataset_name, ri, kind))
        /\ log' = log \o << Logged("info", "Attempting to migrate", dataset_name, ri),
                            Logged("error", clause, dataset_name, ri) >>
        /\ RecordFailure(clause, kind)
    /\ ri' = ri
    /\ pc' = "migrate"
    /\ UNCHANGED << inputs, locals, di, pkg, resource, pkg_crashes_w_error,
                    buckets, visited >>

\* Mutant of MigrateRaises: there is no inner try, the exception reaches the
\* outer except clause.
MigrateRaisesUncontained ==
    /\ pc = "migrate"
    /\ \E kind \in ErrorKinds :
        /\ calls' = Append(calls, Call("resource_update", dataset_name, ri, kind))
        /\ DatasetCrash(kind, Append(log, Logged("info", "Attempting to migrate", dataset_name, ri)))
    /\ UNCHANGED << inputs, locals, pkg, ri, resource, errors, buckets, visited >>

\* Lines 92-94 and 96-107: resource_update raises and the matching except
\* clause records the failure.
MigrateRaises ==
    /\ pc = "migrate"
    /\ \E kind \in ErrorKinds :
        LET clause == ExceptClause(kind) IN
        /\ calls' = Append(calls, Call("resource_update", dataset_name, ri, kind))
        /\ log' = log \o << Logged("info", "Attempting to migrate", dataset_name, ri),
                            Logged("error", clause, dataset_name, ri) >>
        /\ RecordFailure(clause, kind)
    /\ NextResource
    /\ UNCHANGED << inputs, locals, di, pkg, resource, pkg_crashes_w_error,
                    buckets, visited >>

\* ------------------------------------------------------------ archive

\* Line 112: upload_package_zipfile_to_s3 returns; the loop of line 76 moves
\* to the next dataset name.
ZipReturns ==
    /\ pc = "zip"
    /\ calls' = Append(calls, Call("upload_package_zipfile_to_s3", dataset_name, 0, "returned"))
    /\ di' = di + 1
    /\ pc' = "loop"
    /\ UNCHANGED << inputs, locals, pkg, ri, resource, errors,
                    pkg_crashes_w_error, buckets, log, visited >>

\* Mutant of ZipRaises: the outer except clause also marks the dataset in
\* pkg_crashes.
ZipRaisesMarksPackage ==
    /\ pc = "zip"
    /\ \E e \in DatasetErrorKinds :
          /\ calls' = Append(calls, Call("upload_package_zipfile_to_s3", dataset_name, 0, e))
          /\ DatasetCrash(e, log)
    /\ pkg_crashes' = pkg_crashes \cup {pkg.id}
    /\ UNCHANGED << inputs, locals, pkg, ri, resource, key_errors,
                    validation_errors, other_errors_list, buckets, visited >>

\* Lines 112-115: upload_package_zipfile_to_s3 raises.
ZipRaises ==
    /\ pc = "zip"
    /\ \E e \in DatasetErrorKinds :
          /\ calls' = Append(calls, Call("upload_package_zipfile_to_s3", dataset_name, 0, e))
          /\ DatasetCrash(e, log)
    /\ UNCHANGED << inputs, locals, pkg, ri, resource, errors, buckets,
                    visited >>

\* ------------------------------------------------------------ summary

\* Lines 118-128, after the loop of line 76 has run out of names.
Summary ==
    /\ pc = "loop"
    /\ di > Len(dataset_names)
    /\ log' = Append(log, Logged("info", "summary", "", 0))
    /\ pc' = "done"
    /\ UNCHANGED << inputs, locals, cursor, errors, pkg_crashes_w_error,
                    buckets, calls, visited >>

\* ------------------------------------------------------- specification

Next ==
    \/ Setup
    \/ SetupRaises
    \/ FetchReturns
    \/ FetchRaises
    \/ Classify
    \/ MigrateReturns
    \/ MigrateRaises
    \/ ZipReturns
    \/ ZipRaises
    \/ Summary

Spec == Init /\ [][Next]_vars

\* command() runs on one thread and every external call returns or raises:
\* a step that is possible is eventually taken.
FairSpec == Spec /\ WF_vars(Next)

\* ------------------------------------------------- vocabulary of the claims

\* The force_s3 run mode, read from the command line.
ForceMode == Len(args) > 0 /\ args[1] = "force_s3"

\* The exclusion set the configuration denotes: its blank-separated tokens,
\* compared without regard to case.
ExclusionSet == { Lower(t) : t \in Range(Split(config)) }

\* Positions <<dataset, index>> of the resources the inner loop has visited.
VisitedPositions == { <<visited[k].dataset, visited[k].index>> : k \in DOMAIN visited }

\* The visited resource dict at a position.
VisitedAt(p) ==
    visited[CHOOSE k \in DOMAIN visited :
                visited[k].dataset = p[1] /\ visited[k].index = p[2]].resource

\* The four buckets of a run, by position.
Skipped == { p \in VisitedPositions : ResId(p[1], p[2]) \in Range(already_on_s3) }

Excluded ==
    { p \in VisitedPositions :
        \E k \in DOMAIN blacklisted : blacklisted[k].resource_id = ResId(p[1], p[2]) }

Migrated ==
    { p \in VisitedPositions :
        \E k \in DOMAIN log : log[k] = Logged("info", "Successfully migrated", p[1], p[2]) }

Failed ==
    { p \in VisitedPositions :
        \E k \in DOMAIN log :
            log[k].level = "error" /\ log[k].dataset = p[1] /\ log[k].index = p[2] }

BucketsOf(p) ==
    { b \in {"skipped", "excluded", "migrated", "failed"} :
        \/ b = "skipped" /\ p \in Skipped
        \/ b = "excluded" /\ p \in Excluded
        \/ b = "migrated" /\ p \in Migrated
        \/ b = "failed" /\ p \in Failed }

MigratedCount == Cardinality({ k \in DOMAIN log : log[k].msg = "Successfully migrated" })

FailedCount == key_errors + validation_errors + Len(other_errors_list)

BucketTotal == Len(already_on_s3) + Len(blacklisted) + MigratedCount + FailedCount

\* Visited resources on which a field read of lines 83-110 raised KeyError.
Unreadable ==
    { p \in VisitedPositions :
        ClassifyPath(VisitedAt(p), ~ForceMode, ParseBlacklist(config))
            \in {"KeyError@83", "KeyError@85", "KeyError@88", "KeyError@110"} }

\* Indexes of calls of one operation for one dataset.
CallsOf(op, d) == { k \in DOMAIN calls : calls[k].op = op /\ calls[k].dataset = d }

ZipCalls(d) == CallsOf("upload_package_zipfile_to_s3", d)

\* Entries of pkg_crashes_w_error that name a dataset.
CrashEntries(d) ==
    { k \in DOMAIN pkg_crashes_w_error : pkg_crashes_w_error[k].pkg_name = d }

\* The outer loop has finished with dataset d.
PastDataset(d) == \E k \in DOMAIN dataset_names : dataset_names[k] = d /\ k < di

\* The step appends one call of op to calls.
CallStep(op) ==
    /\ Len(calls') = Len(calls) + 1
    /\ calls'[Len(calls')].op = op

\* The step appends one call of op that raised.
RaiseStep(op) == CallStep(op) /\ calls'[Len(calls')].result # "returned"

\* Dataset names for which package_show was called, in call order.
RECURSIVE AttemptedFrom(_)
AttemptedFrom(k) ==
    IF k > Len(calls) THEN <<>>
    ELSE (IF calls[k].op = "package_show" THEN <<calls[k].dataset>> ELSE <<>>)
         \o AttemptedFrom(k + 1)

Attempted == AttemptedFrom(1)

\* -------------------------------------------------------------------- C1

\* C1 as stated: at the end of a run every visited resource is in exactly
\* one of the four buckets, and the bucket sizes add up to the number of
\* resources visited.
C1_PartitionOfVisited ==
    pc = "done" =>
        /\ \A p \in VisitedPositions : Cardinality(BucketsOf(p)) = 1
        /\ BucketTotal = Len(visited)

\* C1 amended: at the end of a run every visited resource is in at most one
\* bucket; it is in none exactly when a read of its url_type, format or id
\* raised KeyError outside the inner try, which crashed its dataset; the
\* bucket sizes add up to the number of resources visited less those.
C1_PartitionOfClassified ==
    pc = "done" =>
        /\ \A p \in VisitedPositions :
              /\ Cardinality(BucketsOf(p)) <= 1
              /\ BucketsOf(p) = {} <=> p \in Unreadable
              /\ p \in Unreadable => CrashEntries(p[1]) # {}
        /\ BucketTotal = Len(visited) - Cardinality(Unreadable)

\* A finished run that visited one resource it classified and one it could
\* not read.
C1_Witness ==
    /\ pc = "done"
    /\ Cardinality(Unreadable) = 1
    /\ BucketTotal = 1
    /\ Len(visited) = 2

\* -------------------------------------------------------------------- C2

\* C2 as stated: whatever fails, dataset listing included, the run does not
\* stop before the summary.
C2_NoErrorIsFatal == pc = "done" \/ ENABLED Next

\* C2 amended: once get_site_user and the dataset listing have returned,
\* whatever else fails, the run reaches the summary having attempted every
\* dataset name of the list in order.  (A failure of get_site_user or of
\* the listing ends the run before any dataset is attempted.)
C2_CompletesAfterListing ==
    (pc = "loop") ~> (pc = "done" /\ Attempted = dataset_names)

\* A finished run in which every dataset crashed.
C2_Witness ==
    /\ pc = "done"
    /\ Len(dataset_names) = 2
    /\ \A k \in DOMAIN dataset_names : CrashEntries(dataset_names[k]) # {}

\* -------------------------------------------------------------------- C3

\* Once the outer loop is past a dataset, each failed migration of a
\* resource of it was followed by the archive call for the dataset, unless
\* a later sibling could not be read (and crashed the dataset itself).
C3_ArchiveAfterFailure ==
    \A p \in Failed :
        PastDataset(p[1]) =>
            \/ ZipCalls(p[1]) # {}
            \/ \E q \in Unreadable : q[1] = p[1] /\ q[2] > p[2]

\* C3: a failed migration leaves the dataset loop running: the step that
\* records it stays in the dataset, adds no dataset-level error, and hands
\* over to the next sibling or, after the last one, to the archive upload;
\* the next step from there visits that sibling, or calls the archive
\* upload.
C3_FailureContained ==
    /\ [][ RaiseStep("resource_update") =>
             /\ di' = di
             /\ pkg' = pkg
             /\ pkg_crashes_w_error' = pkg_crashes_w_error
             /\ IF ri < pkg.nres
                THEN pc' = "resource" /\ ri' = ri + 1
                ELSE pc' = "zip" ]_vars
    /\ [][ pc = "resource" =>
             /\ Len(visited') = Len(visited) + 1
             /\ visited'[Len(visited')].dataset = dataset_name
             /\ visited'[Len(visited')].index = ri ]_vars
    /\ [][ pc = "zip" =>
             /\ CallStep("upload_package_zipfile_to_s3")
             /\ calls'[Len(calls')].dataset = dataset_name ]_vars
    /\ []C3_ArchiveAfterFailure

\* The first resource of a dataset failed to migrate, the second was
\* visited and the archive upload was called.
C3_Witness ==
    \E d \in Range(dataset_names) :
        /\ <<d, 1>> \in Failed
        /\ <<d, 2>> \in VisitedPositions
        /\ ZipCalls(d) # {}

\* -------------------------------------------------------------------- C4

\* For every package_show call that raised: one dataset-level error entry
\* names the dataset, none of its resources was visited or migrated, and
\* the archive upload was not called for it.
C4_NothingForUnfetched ==
    \A k \in DOMAIN calls :
        (calls[k].op = "package_show" /\ calls[k].result # "returned") =>
            LET d == calls[k].dataset IN
            /\ Cardinality(CrashEntries(d)) = 1
            /\ ZipCalls(d) = {}
            /\ CallsOf("resource_update", d) = {}
            /\ \A p \in VisitedPositions : p[1] # d

\* C4: the step on which package_show raises appends exactly one entry,
\* naming the dataset, to pkg_crashes_w_error and changes no resource-level
\* record; afterwards the dataset has that one entry, no resource visited
\* and no archive upload.
C4_FetchFailure ==
    /\ [][ RaiseStep("package_show") =>
             /\ pkg_crashes_w_error' =
                   Append(pkg_crashes_w_error,
                          [pkg_name |-> dataset_name,
                           error |-> calls'[Len(calls')].result])
             /\ UNCHANGED << already_on_s3, blacklisted, not_blacklisted,
                             extensions_seen, key_errors, validation_errors,
                             other_errors_list, pkg_crashes >> ]_vars
    /\ []C4_NothingForUnfetched

\* The fetch of the first dataset failed and the run went on to the second.
C4_Witness ==
    /\ Len(calls) >= 4
    /\ calls[3].op = "package_show" /\ calls[3].result # "returned"
    /\ calls[4].op = "package_show" /\ calls[4].dataset # calls[3].dataset
    /\ pc = "done"

\* -------------------------------------------------------------------- C5

\* C5: in force mode already_on_s3 stays empty for the whole run.
C5_ForceNeverSkips == ForceMode => already_on_s3 = <<>>

\* A finished force-mode run that visited a resource whose url_type is s3.
C5_Witness ==
    /\ ForceMode
    /\ pc = "done"
    /\ \E p \in VisitedPositions :
          HasKey(VisitedAt(p), "url_type") /\ VisitedAt(p)["url_type"] = "s3"

\* -------------------------------------------------------------------- C6

\* C6: no resource_update call was made for a resource whose lowercased
\* format is in the exclusion set, in either run mode and whatever the
\* resource's url_type.
C6_ExcludedNeverMigrated ==
    \A k \in DOMAIN calls :
        calls[k].op = "resource_update" =>
            LET r == VisitedAt(<<calls[k].dataset, calls[k].index>>) IN
            HasKey(r, "format") => Lower(r["format"]) \notin ExclusionSet

\* A finished run that excluded two uploaded resources, neither of whose
\* formats is spelled like a configured token.
C6_Witness ==
    /\ pc = "done"
    /\ Cardinality(Excluded) = 2
    /\ \A p \in Excluded :
          /\ VisitedAt(p)["url_type"] = "upload"
          /\ VisitedAt(p)["format"] \notin Range(Split(config))

\* -------------------------------------------------------------------- C7

\* The lowercased formats of the visited resources that have one.
VisitedExtensions ==
    { Lower(VisitedAt(p)["format"]) :
        p \in { q \in VisitedPositions : HasKey(VisitedAt(q), "format") } }

\* C7 as stated: at the end of a run extensions_seen holds the lowercased
\* extension of every resource visited, however it was classified.
C7_ExtensionsOfAllVisited == pc = "done" => extensions_seen = VisitedExtensions

\* -------------------------------------------------------------------- C8

\* package_show returned the dataset.
FetchReturned(d) == \E k \in CallsOf("package_show", d) : calls[k].result = "returned"

\* The resource at a position has been put into a bucket.
Resolved(p) == p \in VisitedPositions /\ BucketsOf(p) # {}

\* For every dataset: at most one archive call, nothing done for the
\* dataset after it, and exactly one once the outer loop is past a dataset
\* that was fetched and each of whose visited resources was processed.
C8_OneArchiveCall ==
    \A d \in Range(dataset_names) :
        /\ Cardinality(ZipCalls(d)) <= 1
        /\ \A k \in ZipCalls(d) : \A j \in DOMAIN calls : j > k => calls[j].dataset # d
        /\ ( /\ PastDataset(d)
             /\ FetchReturned(d)
             /\ \A p \in VisitedPositions : p[1] = d => Resolved(p) )
           => Cardinality(ZipCalls(d)) = 1

\* C8: the archive upload is called once per fetched dataset whose resource
\* loop ran to its end, and only when every resource of the list has been
\* processed (the loop is entered when num_resources > 0); no resource of
\* the dataset is migrated after it.
C8_ArchiveAfterAllResources ==
    /\ [][ CallStep("upload_package_zipfile_to_s3") =>
             /\ pc = "zip"
             /\ calls'[Len(calls')].dataset = dataset_name
             /\ ZipCalls(dataset_name) = {}
             /\ pkg.num_resources > 0 =>
                   \A i \in 1..pkg.nres : Resolved(<<dataset_name, i>>) ]_vars
    /\ []C8_OneArchiveCall

\* A finished run: a dataset with two processed resources, one of them
\* failed, and one archive call.
C8_Witness ==
    /\ pc = "done"
    /\ \E d \in Range(dataset_names) :
          /\ <<d, 1>> \in Failed
          /\ <<d, 2>> \in Migrated
          /\ Cardinality(ZipCalls(d)) = 1

\* -------------------------------------------------------------------- C9

\* C9: the step of a resource_update call that raised adds one to the
\* bucket of its exception class (validation_errors, key_errors, or one
\* entry with the dataset's id and the error in other_errors_list), leaves
\* the two other buckets alone and adds the dataset's id to pkg_crashes; a
\* call that returned changes none of the four.
C9_OneBucketPerFailure ==
    [][ CallStep("resource_update") =>
          LET r == calls'[Len(calls')].result IN
          /\ r = "ValidationError" =>
                /\ validation_errors' = validation_errors + 1
                /\ key_errors' = key_errors
                /\ other_errors_list' = other_errors_list
          /\ r = "KeyError" =>
                /\ key_errors' = key_errors + 1
                /\ validation_errors' = validation_errors
                /\ other_errors_list' = other_errors_list
          /\ r \notin {"returned", "ValidationError", "KeyError"} =>
                /\ other_errors_list' =
                      Append(other_errors_list, [id |-> PkgId(dataset_name), error |-> r])
                /\ key_errors' = key_errors
                /\ validation_errors' = validation_errors
          /\ r # "returned" => pkg_crashes' = pkg_crashes \cup {PkgId(dataset_name)}
          /\ r = "returned" =>
                UNCHANGED << key_errors, validation_errors, other_errors_list,
                             pkg_crashes >> ]_vars

\* A finished run with one KeyError and one other error, in one dataset.
C9_Witness ==
    /\ pc = "done"
    /\ key_errors = 1
    /\ validation_errors = 0
    /\ Len(other_errors_list) = 1
    /\ Cardinality(pkg_crashes) = 1

\* ------------------------------------------------------------------- C10

ErrorLogCount == Cardinality({ k \in DOMAIN log : log[k].level = "error" })

ExpectedClass(r) ==
    IF ~ForceMode /\ r["url_type"] = "s3" THEN "skipped"
    ELSE IF Lower(r["format"]) \in ExclusionSet THEN "excluded"
    ELSE "migrate"

\* The k-th visited resource is recorded in already_on_s3, in blacklisted,
\* and was handed to the migration action or is about to be.
InAlreadyOnS3(k) ==
    ResId(visited[k].dataset, visited[k].index) \in Range(already_on_s3)

InBlacklisted(k) ==
    \E j \in DOMAIN blacklisted :
        blacklisted[j].resource_id = ResId(visited[k].dataset, visited[k].index)

Eligible(k) ==
    \/ \E j \in DOMAIN calls :
          /\ calls[j].op = "resource_update"
          /\ calls[j].dataset = visited[k].dataset
          /\ calls[j].index = visited[k].index
    \/ pc = "migrate" /\ dataset_name = visited[k].dataset /\ ri = visited[k].index

\* What was done with the k-th visited resource agrees with the decision
\* order: it is in already_on_s3, in blacklisted, or eligible, and in no
\* other of the three.
ClassifiedAsExpected(k) ==
    LET e == ExpectedClass(visited[k].resource) IN
    /\ InAlreadyOnS3(k) <=> e = "skipped"
    /\ InBlacklisted(k) <=> e = "excluded"
    /\ Eligible(k) <=> e = "migrate"

\* C11 as stated: every visited resource with a url_type and a format is
\* classified by the first-match-wins order, and recorded accordingly.
C11_DecisionOrder ==
    \A k \in DOMAIN visited :
        {"url_type", "format"} \subseteq DOMAIN visited[k].resource =>
            ClassifiedAsExpected(k)

\* C11 amended: every visited resource that has url_type, format and id is
\* classified by the first-match-wins order and recorded accordingly; one
\* that is both on S3 and of an excluded filetype is in already_on_s3 and
\* not in blacklisted without force mode, and in blacklisted with it.  (A
\* resource without id takes the same branch, and the read of its id then
\* raises KeyError before anything is recorded.)
C11_DecisionOrderOfReadable ==
    \A k \in DOMAIN visited :
        {"url_type", "format", "id"} \subseteq DOMAIN visited[k].resource =>
            ClassifiedAsExpected(k)

\* Without force mode a resource on S3 whose filetype is excluded was
\* recorded as already on S3.
C11_Witness ==
    /\ ~ForceMode
    /\ \E p \in Skipped :
          /\ Lower(VisitedAt(p)["format"]) \in ExclusionSet
          /\ p \notin Excluded
    /\ pc = "done"

\* ------------------------------------------------------------------- C12

\* A step in which upload_package_zipfile_to_s3 raises appends exactly one
\* entry for the current dataset to pkg_crashes_w_error, leaves every
\* resource-level record as it was (not_blacklisted, already_on_s3,
\* blacklisted, extensions_seen, the error counts, pkg_crashes) and moves the
\* outer loop on; and whenever the outer loop stands before a name, the next
\* step is the fetch of that name.
C12_PackagingFailureKeepsRecords ==
    [][ /\ RaiseStep("upload_package_zipfile_to_s3") =>
              /\ pkg_crashes_w_error' =
                    Append(pkg_crashes_w_error,
                           [pkg_name |-> dataset_name,
                            error |-> calls'[Len(calls')].result])
              /\ UNCHANGED << errors, buckets >>
              /\ di' = di + 1
              /\ pc' = "loop"
        /\ (pc = "loop" /\ di <= Len(dataset_names)) =>
              /\ CallStep("package_show")
              /\ calls'[Len(calls')].dataset = dataset_names[di]
      ]_vars

\* Packaging of the first dataset failed after one of its resources was
\* counted as eligible, the count is still there, and the second dataset
\* has been fetched.
C12_Witness ==
    /\ not_blacklisted >= 1
    /\ \E k \in ZipCalls("d1") :
          /\ calls[k].result # "returned"
          /\ \E j \in CallsOf("package_show", "d2") : j = k + 1
    /\ Cardinality(CrashEntries("d1")) = 1

\* ------------------------------------------------------------------- C13

\* Calls made for a dataset, and resources visited in it.
CallsFor(d) == { k \in DOMAIN calls : calls[k].dataset = d }

VisitsOf(d) == { k \in DOMAIN visited : visited[k].dataset = d }

\* The step is an error that no inner except clause contains: package_show
\* or the archive upload raises, or the resource just visited lacks a field
\* that is read outside the inner try.
UncontainedStep ==
    \/ RaiseStep("package_show")
    \/ RaiseStep("upload_package_zipfile_to_s3")
    \/ /\ Len(visited') = Len(visited) + 1
       /\ << visited'[Len(visited')].dataset, visited'[Len(visited')].index >> \in Unreadable'

\* An uncontained error marks the dataset crashed with one entry of
\* pkg_crashes_w_error and ends its visit; pkg_crashes_w_error changes in no
\* other way; a dataset has at most one entry and the outer loop is past it;
\* and after the entry no call is made for the dataset (no migration, no
\* archive upload) and no resource of it is visited.
C13_CrashEndsDataset ==
    /\ [](\A d \in Range(dataset_names) :
             /\ Cardinality(CrashEntries(d)) <= 1
             /\ CrashEntries(d) # {} => PastDataset(d))
    /\ [][ /\ UncontainedStep =>
                 /\ Len(pkg_crashes_w_error') = Len(pkg_crashes_w_error) + 1
                 /\ pkg_crashes_w_error'[Len(pkg_crashes_w_error')].pkg_name = dataset_name
           /\ pkg_crashes_w_error' # pkg_crashes_w_error =>
                 /\ UncontainedStep
                 /\ \E e \in ErrorKinds :
                       pkg_crashes_w_error' =
                          Append(pkg_crashes_w_error, [pkg_name |-> dataset_name, error |-> e])
                 /\ di' = di + 1
                 /\ pc' = "loop"
           /\ \A d \in Range(dataset_names) :
                 CrashEntries(d) # {} =>
                    /\ CallsFor(d)' = CallsFor(d)
                    /\ VisitsOf(d)' = VisitsOf(d)
         ]_vars

\* The first of two resources of a dataset lacked a field, the dataset is
\* recorded as crashed, and its second resource was not visited.
C13_Witness ==
    /\ pc = "loop"
    /\ pkg.id = PkgId("d1")
    /\ pkg.num_resources = 2
    /\ pkg.nres = 2
    /\ Cardinality(VisitsOf("d1")) = 1
    /\ << "d1", 1 >> \in Unreadable
    /\ Cardinality(CrashEntries("d1")) = 1
    /\ ZipCalls("d1") = {}

\* ------------------------------------------------------------------- C14

\* Migration attempts of a dataset that raised.
FailedAttempts(d) ==
    { k \in CallsOf("resource_update", d) : calls[k].result # "returned" }

\* At every point pkg_crashes holds exactly the ids of the datasets with at
\* least one failed migration attempt, each once however many attempts
\* failed; a dataset whose only failure was its fetch or its packaging has
\* an entry in pkg_crashes_w_error and its id is not in pkg_crashes.
C14_CrashedByResource ==
    /\ pkg_crashes = { PkgId(d) : d \in { n \in Range(dataset_names) : FailedAttempts(n) # {} } }
    /\ Cardinality(pkg_crashes) =
          Cardinality({ n \in Range(dataset_names) : FailedAttempts(n) # {} })
    /\ \A d \in Range(dataset_names) :
          ( /\ FailedAttempts(d) = {}
            /\ \/ \E k \in CallsOf("package_show", d) : calls[k].result # "returned"
               \/ \E k \in ZipCalls(d) : calls[k].result # "returned" )
          => /\ CrashEntries(d) # {}
             /\ PkgId(d) \notin pkg_crashes

\* Two migration attempts of the first dataset failed and its id is in
\* pkg_crashes once; the second dataset failed at its fetch and is in
\* pkg_crashes_w_error only.
C14_Witness ==
    /\ Cardinality(FailedAttempts("d1")) = 2
    /\ pkg_crashes = {PkgId("d1")}
    /\ \E k \in CallsOf("package_show", "d2") : calls[k].result # "returned"
    /\ CrashEntries("d2") # {}

\* ------------------------------------------------------------------- C15

\* Place of a dataset name in the listing.
NameIndex(d) == CHOOSE i \in DOMAIN dataset_names : dataset_names[i] = d

\* Indexes of the calls made for datasets (all but lines 39 and 50).
DatasetCalls == { k \in DOMAIN calls : calls[k].dataset \in Range(dataset_names) }

\* Call a comes before call b in source order: an earlier dataset, or the
\* same dataset and fetch before everything, resources by ascending index,
\* archive after everything.
InSourceOrder(a, b) ==
    \/ NameIndex(a.dataset) < NameIndex(b.dataset)
    \/ /\ a.dataset = b.dataset
       /\ \/ a.op = "package_show" /\ b.op # "package_show"
          \/ a.op # "upload_package_zipfile_to_s3" /\ b.op = "upload_package_zipfile_to_s3"
          \/ a.op = "resource_update" /\ b.op = "resource_update" /\ a.index < b.index

\* Eligible resources whose migration attempt has neither returned nor
\* raised yet.
InProgress ==
    not_blacklisted
       - Cardinality({ k \in DOMAIN calls : calls[k].op = "resource_update" })

\* Datasets are fetched in the order of the listing, one after the other
\* without gaps; the resources of a dataset are visited in list order from
\* the first, each following its predecessor; every call is followed by a
\* call later in source order (an order that is transitive, so that all
\* calls are in source order); nothing is done for a
\* dataset the outer loop has not reached; every dataset the loop is past
\* has been packaged or recorded as crashed; and at most one migration is in
\* progress, only while the run stands in the attempt.
C15_SourceOrder ==
    /\ Len(Attempted) <= Len(dataset_names)
    /\ Attempted = SubSeq(dataset_names, 1, Len(Attempted))
    /\ \A k \in DatasetCalls :
          /\ k + 1 \in DOMAIN calls => InSourceOrder(calls[k], calls[k + 1])
          /\ NameIndex(calls[k].dataset) <= di
    /\ \A k \in DOMAIN visited :
          /\ NameIndex(visited[k].dataset) <= di
          /\ IF k > 1 /\ visited[k - 1].dataset = visited[k].dataset
             THEN visited[k].index = visited[k - 1].index + 1
             ELSE /\ visited[k].index = 1
                  /\ k > 1 => NameIndex(visited[k - 1].dataset)
                                 < NameIndex(visited[k].dataset)
    /\ \A d \in Range(dataset_names) :
          PastDataset(d) => ZipCalls(d) # {} \/ CrashEntries(d) # {}
    /\ InProgress \in {0, 1}
    /\ InProgress = 1 <=> pc = "migrate"

\* Two datasets were handled, the first with two resources that were both
\* handed to the migration action, before the second was fetched.
C15_Witness ==
    /\ pc = "done"
    /\ Attempted = << "d1", "d2" >>
    /\ Cardinality(CallsOf("resource_update", "d1")) = 2
    /\ ZipCalls("d1") # {}

\* ------------------------------------------------------------------- C16

\* List b is list a with zero or more entries appended.
IsPrefix(a, b) == Len(a) <= Len(b) /\ SubSeq(b, 1, Len(a)) = a

\* Over every step the three counters do not decrease, the four lists keep
\* their entries and grow at the end only, and the two sets keep their
\* members.
C16_AccumulatorsMonotonic ==
    [][ /\ key_errors' >= key_errors
        /\ validation_errors' >= validation_errors
        /\ not_blacklisted' >= not_blacklisted
        /\ IsPrefix(other_errors_list, other_errors_list')
        /\ IsPrefix(pkg_crashes_w_error, pkg_crashes_w_error')
        /\ IsPrefix(already_on_s3, already_on_s3')
        /\ IsPrefix(blacklisted, blacklisted')
        /\ pkg_crashes \subseteq pkg_crashes'
        /\ extensions_seen \subseteq extensions_seen'
      ]_vars

\* A run in which lists, sets and counters grew more than once: two
\* resources of two datasets failed in the catch-all clause and a dataset
\* crashed.
C16_Witness ==
    /\ pc = "done"
    /\ Len(other_errors_list) = 2
    /\ Cardinality(pkg_crashes) = 2
    /\ not_blacklisted = 2
    /\ Cardinality(extensions_seen) = 2
    /\ Len(pkg_crashes_w_error) >= 1

\* ------------------------------------------------------------------- C17

\* Migration attempts that returned.
SucceededCount ==
    Cardinality({ k \in DOMAIN calls :
                    calls[k].op = "resource_update" /\ calls[k].result = "returned" })

FetchedName == pkg.id[2]

\* When package_show returns a dataset whose num_resources is not greater
\* than 0, the run goes straight to the archive upload; the next step is
\* that upload; neither step changes a resource-level record; and from then
\* on no resource of the dataset has been visited or handed to the migration
\* action, and the archive upload has been called for it exactly once as
\* soon as the run has left line 112.
C18_NoResourcesReported ==
    /\ []( (pkg # NoPkg /\ pkg.num_resources <= 0) =>
              /\ VisitsOf(FetchedName) = {}
              /\ CallsOf("resource_update", FetchedName) = {}
              /\ Cardinality(ZipCalls(FetchedName))
                    = IF pc = "zip" /\ dataset_name = FetchedName THEN 0 ELSE 1 )
    /\ [][ /\ ( /\ CallStep("package_show")
                /\ calls'[Len(calls')].result = "returned"
                /\ pkg'.num_resources <= 0 )
              => /\ pc' = "zip"
                 /\ UNCHANGED << errors, buckets, visited >>
           /\ (pc = "zip" /\ pkg.num_resources <= 0)
              => /\ CallStep("upload_package_zipfile_to_s3")
                 /\ calls'[Len(calls')].dataset = FetchedName
                 /\ UNCHANGED << errors, buckets, visited >>
         ]_vars

\* A dataset with two resources in its list and num_resources 0 went
\* through the run: nothing was visited and its archive was uploaded once.
C18_Witness ==
    /\ pc = "done"
    /\ pkg.num_resources = 0
    /\ pkg.nres = 2
    /\ VisitsOf(FetchedName) = {}
    /\ Cardinality(ZipCalls(FetchedName)) = 1

\* ------------------------------------------------------------------- C19

\* Indexes of the resource_update calls of the run.
UpdateCalls == { k \in DOMAIN calls : calls[k].op = "resource_update" }

\* Invocations of change_to_s3: line 93 logs each one just before it.
Invocations == { k \in DOMAIN log : log[k].msg = "Attempting to migrate" }

\* Every resource is visited at most once; no two invocations of
\* change_to_s3 and no two resource_update calls are for the same resource,
\* so that a resource whose migration failed has no later attempt; the
\* resources with an invocation are those with a resource_update call, one
\* call for each invocation; and each belongs to a visited resource.
C19_NoRetry ==
    LET called  == { << calls[k].dataset, calls[k].index >> : k \in UpdateCalls }
        invoked == { << log[k].dataset, log[k].index >> : k \in Invocations }
    IN  /\ Cardinality(VisitedPositions) = Len(visited)
        /\ Cardinality(called) = Cardinality(UpdateCalls)
        /\ Cardinality(invoked) = Cardinality(Invocations)
        /\ called = invoked
        /\ called \subseteq VisitedPositions

\* The migration of a resource failed, the run went on to another resource
\* and ended, and the failed resource has its one call only.
C19_Witness ==
    /\ pc = "done"
    /\ \E k \in UpdateCalls :
          /\ calls[k].result # "returned"
          /\ \E j \in UpdateCalls : j > k

====
